---- MODULE Spec2Model ----
(***************************************************************************)
(* dstat (src/main.go): scan a directory tree, accumulate per-extension    *)
(* file counts and byte sizes, collapse small categories into "other",     *)
(* sort and print.                                                         *)
(*                                                                         *)
(* File and directory names are sequences of tokens; the token "." is the  *)
(* dot character and every other token is a dot-free run of characters.    *)
(* Extension keys are such sequences too (the dot-free text after the last *)
(* dot), so "go" is <<"go">> and the empty string is <<>>.                 *)
(*                                                                         *)
(* Go's int / int64 are 64 bits wide; every quantity of the model stays    *)
(* far below 2^53, where float64(v) is exact and v/t < 0.01 agrees with    *)
(* 100*v < t, so integers are unbounded here and shares are exact.         *)
(***************************************************************************)
EXTENDS Integers, Sequences, FiniteSets, TLC

\* ------------------------------------------------------------------ bounds
MaxEntries == 2      \* entries the walk meets below the root
MaxDepth == 2        \* directories open at once
MaxRuns == 2         \* runs of the program against the same tree
MaxFileSize == 2     \* file sizes 0..MaxFileSize in the walk
Big == 99            \* the large per-extension count / size of an accumulator

\* ------------------------------------------------------- names and tokens
Dot == "."
NoExt == <<"[noext]">>
Other == <<"other">>

FileNames ==
  { <<"a">>,                       \* no dot
    <<Dot, "bashrc">>,             \* hidden, its only dot is the first byte
    <<"a", Dot, "go">>,
    <<Dot, "a", Dot, "other">>,    \* hidden, two dots
    <<"a", Dot>> }                 \* trailing dot
DirNames == { <<"src">>, <<"node_modules">> }
RootNames == { <<Dot>>, <<"node_modules">> }

Sizes == 0 .. MaxFileSize

ExcludeChoices == { {}, { <<"go">>, <<"bashrc">>, NoExt } }
ExcludeDirChoices == { {}, { <<"node_modules">> } }
MinSizeChoices == { 0, 2 }
MaxSizeChoices == { 0, 1 }

VARIABLES
  cfg,         \* Config (src/main.go:15-28), fixed by parseArgs before the walk
  pc,          \* "start" | "walk" | "walked" | "exit"
  stack,       \* names of the directories WalkDir is currently inside
  counts,      \* map[string]int
  sizeCounts,  \* map[string]int64
  total,
  totalBytes,
  walkErr,     \* the error filepath.WalkDir returned ("nil" when none)
  last,        \* the last callback invocation and what it did
  nVisited,    \* callback invocations so far
  pruned,      \* some directory has been pruned in this walk
  stdout,
  stderr,
  exitCode,
  stats,       \* []FileStat returned by aggregateStats
  aggregated,  \* main reached aggregateStats / printStats
  runs,        \* program runs completed against the same tree
  prevStats    \* stats of the previous run

vars == << cfg, pc, stack, counts, sizeCounts, total, totalBytes, walkErr, last,
           nVisited, pruned, stdout, stderr, exitCode, stats, aggregated, runs,
           prevStats >>

\* ------------------------------------------------------------ pure helpers
Range(s) == { s[i] : i \in 1 .. Len(s) }

RECURSIVE SumMap(_)
SumMap(m) ==
  IF DOMAIN m = {} THEN 0
  ELSE LET k == CHOOSE x \in DOMAIN m : TRUE
       IN m[k] + SumMap([x \in DOMAIN m \ {k} |-> m[x]])

Perms(S) ==
  { s \in [1 .. Cardinality(S) -> S] : \A i, j \in DOMAIN s : s[i] = s[j] => i = j }

EmptyMap == [k \in {} |-> 0]

\* strings.HasPrefix(d.Name(), ".")
HasPrefixDot(name) == Len(name) > 0 /\ name[1] = Dot

\* filepath.Ext: scan from the last byte down to the first, return the suffix
\* starting at the first dot met (the last dot of the name), "" when none.
RECURSIVE ExtScan(_, _)
ExtScan(name, i) ==
  IF i < 1 THEN <<>>
  ELSE IF name[i] = Dot THEN SubSeq(name, i, Len(name))
  ELSE ExtScan(name, i - 1)

Ext(name) == ExtScan(name, Len(name))

\* strings.TrimPrefix(ext, ".")
TrimPrefixDot(s) == IF HasPrefixDot(s) THEN Tail(s) ELSE s

ExtKeyFirstDot(name) ==
  LET dots == { i \in 1 .. Len(name) : name[i] = Dot }
  IN IF dots = {} THEN NoExt
     ELSE LET f == CHOOSE i \in dots : \A j \in dots : i <= j
          IN SubSeq(name, f + 1, Len(name))

\* src/main.go:232-237
ExtKey(name) ==
  LET ext == Ext(name)
  IN IF ext = <<>> THEN NoExt ELSE TrimPrefixDot(ext)

SizeOutOfRangeNoZeroCheck(c, size) == size < c.MinSize \/ size > c.MaxSize

\* src/main.go:228
SizeOutOfRange(c, size) ==
  (c.MinSize > 0 /\ size < c.MinSize) \/ (c.MaxSize > 0 /\ size > c.MaxSize)

MapAdd(m, k, v) ==
  IF k \in DOMAIN m THEN [m EXCEPT ![k] = @ + v] ELSE m @@ (k :> v)

AccumulateDrift(acc, ext, size) ==
  [ counts     |-> MapAdd(acc.counts, ext, 1),
    sizeCounts |-> MapAdd(acc.sizeCounts, ext, 0),
    total      |-> acc.total + 1,
    totalBytes |-> acc.totalBytes + size ]

\* src/main.go:243-246
Accumulate(acc, ext, size) ==
  [ counts     |-> MapAdd(acc.counts, ext, 1),
    sizeCounts |-> MapAdd(acc.sizeCounts, ext, size),
    total      |-> acc.total + 1,
    totalBytes |-> acc.totalBytes + size ]

DirVerdictNoPrune(c, name) == "nil"

\* src/main.go:212-217: what the callback returns for a directory
DirVerdict(c, name) == IF name \in c.ExcludeDirs THEN "SkipDir" ELSE "nil"

\* The WalkDirFunc of walkDir, src/main.go:207-248.  d is the entry
\* [name, isDir, size, infoErr]; err is TRUE when WalkDir reports an error
\* for the path (Lstat of the root or ReadDir of a directory failed).
Callback(c, acc, d, err) ==
  IF err THEN [ret |-> "nil", acc |-> acc, log |-> TRUE]
  ELSE IF d.isDir THEN [ret |-> DirVerdict(c, d.name), acc |-> acc, log |-> FALSE]
  ELSE IF ~c.IncludeHidden /\ HasPrefixDot(d.name)
       THEN [ret |-> "nil", acc |-> acc, log |-> FALSE]
  ELSE IF d.infoErr THEN [ret |-> "nil", acc |-> acc, log |-> TRUE]
  ELSE IF SizeOutOfRange(c, d.size) THEN [ret |-> "nil", acc |-> acc, log |-> FALSE]
  ELSE LET ext == ExtKey(d.name)
       IN IF ext \in c.Exclude
          THEN [ret |-> "nil", acc |-> acc, log |-> FALSE]
          ELSE [ret |-> "nil", acc |-> Accumulate(acc, ext, d.size), log |-> FALSE]

\* filepath.WalkDir's last lines: SkipDir / SkipAll from the walk are not errors
WalkDirReturn(ret) == IF ret \in {"SkipDir", "SkipAll"} THEN "nil" ELSE ret

\* ------------------------------------------------------------- aggregation
\* safeDivF, src/main.go:348-353; the quotient a/b is kept as the pair <<a, b>>
safeDivF(a, b) == IF b = 0 THEN <<0, 1>> ELSE <<a, b>>

BelowOnePercentInclusive(q) == q[1] * 100 <= q[2]

\* percent < 0.01, src/main.go:262 and 278
BelowOnePercent(q) == q[1] * 100 < q[2]

\* FileStat{k, 0, v} in size mode, FileStat{k, v, 0} in count mode
MkStat(c, k, v) ==
  IF c.BySize THEN [Ext |-> k, Count |-> 0, Size |-> v]
  ELSE [Ext |-> k, Count |-> v, Size |-> 0]

Metric(c, s) == IF c.BySize THEN s.Size ELSE s.Count

FoldOverwrite(c, st, k, v) ==
  IF ~c.Verbose /\ BelowOnePercent(safeDivF(v, st.tot))
  THEN [st EXCEPT !.other = v]
  ELSE [st EXCEPT !.stats = Append(@, MkStat(c, k, v))]

\* one iteration of the range loop, src/main.go:260-267 / 276-283
Fold(c, st, k, v) ==
  IF ~c.Verbose /\ BelowOnePercent(safeDivF(v, st.tot))
  THEN [st EXCEPT !.other = @ + v]
  ELSE [st EXCEPT !.stats = Append(@, MkStat(c, k, v))]

RECURSIVE RangeLoop(_, _, _, _)
RangeLoop(c, m, order, st) ==
  IF order = <<>> THEN st
  ELSE RangeLoop(c, m, Tail(order), Fold(c, st, Head(order), m[Head(order)]))

\* src/main.go:268-270 / 284-286
EmitOther(c, st) ==
  IF st.other > 0 THEN Append(st.stats, MkStat(c, Other, st.other)) ELSE st.stats

\* sort.Slice with less(i, j) = metric[i] > metric[j]; for slices of at most 12
\* elements Go sorts by insertion: an element moves left while less(it, left
\* neighbour), so entries of equal metric keep their order.
RECURSIVE InsertLeft(_, _, _)
InsertLeft(c, s, j) ==
  IF j > 1 /\ Metric(c, s[j]) > Metric(c, s[j - 1])
  THEN InsertLeft(c, [s EXCEPT ![j] = s[j - 1], ![j - 1] = s[j]], j - 1)
  ELSE s

RECURSIVE InsertionSort(_, _, _)
InsertionSort(c, s, i) ==
  IF i > Len(s) THEN s ELSE InsertionSort(c, InsertLeft(c, s, i), i + 1)

sortSlice(c, s) == InsertionSort(c, s, 2)

\* aggregateStats, src/main.go:255-293; order is the order in which range
\* iterates over the map (unspecified in Go, different from run to run)
aggregateStats(c, cnt, szs, tot, totBytes, order) ==
  LET m  == IF c.BySize THEN szs ELSE cnt
      t  == IF c.BySize THEN totBytes ELSE tot
      st == RangeLoop(c, m, order, [stats |-> <<>>, other |-> 0, tot |-> t])
  IN sortSlice(c, EmitOther(c, st))

\* printStats, src/main.go:296-322: a header unless --nobar, one line per entry
printStats(c, st) ==
  (IF ~c.NoBar THEN <<"File type breakdown:">> ELSE <<>>)
    \o [i \in 1 .. Len(st) |-> "entry"]

mainRunNoEmptyCheck(c, err, acc, order) ==
  IF err # "nil"
  THEN [stdout |-> <<>>, stderr |-> <<"Error walking directory:">>, exitCode |-> 1,
        stats |-> <<>>, aggregated |-> FALSE]
  ELSE IF c.SizeOnly
  THEN [stdout |-> <<"size">>, stderr |-> <<>>, exitCode |-> 0,
        stats |-> <<>>, aggregated |-> FALSE]
  ELSE LET pre == IF c.ShowSize THEN <<"Directory size:">> ELSE <<>>
           st == aggregateStats(c, acc.counts, acc.sizeCounts, acc.total,
                                acc.totalBytes, order)
       IN [stdout |-> pre \o printStats(c, st), stderr |-> <<>>,
           exitCode |-> 0, stats |-> st, aggregated |-> TRUE]

\* main after parseArgs, src/main.go:69-90
mainRun(c, err, acc, order) ==
  IF err # "nil"
  THEN [stdout |-> <<>>, stderr |-> <<"Error walking directory:">>, exitCode |-> 1,
        stats |-> <<>>, aggregated |-> FALSE]
  ELSE IF c.SizeOnly
  THEN [stdout |-> <<"size">>, stderr |-> <<>>, exitCode |-> 0,
        stats |-> <<>>, aggregated |-> FALSE]
  ELSE LET pre == IF c.ShowSize THEN <<"Directory size:">> ELSE <<>>
       IN IF acc.total = 0 /\ acc.totalBytes = 0
          THEN [stdout |-> pre \o <<"No files matched criteria.">>, stderr |-> <<>>,
                exitCode |-> 0, stats |-> <<>>, aggregated |-> FALSE]
          ELSE LET st == aggregateStats(c, acc.counts, acc.sizeCounts, acc.total,
                                        acc.totalBytes, order)
               IN [stdout |-> pre \o printStats(c, st), stderr |-> <<>>,
                   exitCode |-> 0, stats |-> st, aggregated |-> TRUE]

\* ------------------------------------------------------------------- state
Acc == [counts |-> counts, sizeCounts |-> sizeCounts, total |-> total,
        totalBytes |-> totalBytes]

NilEntry == [name |-> <<>>, isDir |-> FALSE, size |-> 0, infoErr |-> FALSE]

\* descended: WalkDir went into the entry; cont: the walk went on after it
NoLast == [valid |-> FALSE, d |-> NilEntry, err |-> FALSE, ancestors |-> <<>>,
           ret |-> "nil", added |-> FALSE, logged |-> FALSE, key |-> <<>>,
           descended |-> FALSE, cont |-> FALSE]

\* the key whose count the callback changed
ChangedKey(old, new) ==
  IF old.counts = new.counts THEN <<>>
  ELSE CHOOSE k \in DOMAIN new.counts :
         k \notin DOMAIN old.counts \/ old.counts[k] # new.counts[k]

\* the flags read only after the walk
Display == [Verbose : BOOLEAN, NoBar : BOOLEAN, ShowSize : BOOLEAN,
            SizeOnly : BOOLEAN, BySize : BOOLEAN]

\* the options the walk reads
Filters == [IncludeHidden : BOOLEAN, MinSize : MinSizeChoices,
            MaxSize : MaxSizeChoices, Exclude : ExcludeChoices,
            ExcludeDirs : ExcludeDirChoices]

NoFilter == [IncludeHidden |-> FALSE, MinSize |-> 0, MaxSize |-> 0,
             Exclude |-> {}, ExcludeDirs |-> {}]

\* the display flags the walks are explored under; every combination of them
\* is explored by SpecAgg
WalkDisplay ==
  { dp \in Display :
      \/ ~dp.Verbose /\ ~dp.NoBar /\ ~dp.ShowSize /\ ~dp.BySize
      \/ dp.Verbose /\ dp.NoBar /\ dp.ShowSize /\ dp.BySize /\ ~dp.SizeOnly }

Config(dp, f) ==
  [ Verbose |-> dp.Verbose, NoBar |-> dp.NoBar, ShowSize |-> dp.ShowSize,
    SizeOnly |-> dp.SizeOnly, BySize |-> dp.BySize,
    IncludeHidden |-> f.IncludeHidden, MinSize |-> f.MinSize,
    MaxSize |-> f.MaxSize, Exclude |-> f.Exclude, ExcludeDirs |-> f.ExcludeDirs ]

\* the state when main calls walkDir: Config parsed, accumulators zero
Init ==
  /\ cfg \in { Config(dp, f) : dp \in WalkDisplay, f \in Filters }
  /\ pc = "start"
  /\ stack = <<>>
  /\ counts = EmptyMap
  /\ sizeCounts = EmptyMap
  /\ total = 0
  /\ totalBytes = 0
  /\ walkErr = "nil"
  /\ last = NoLast
  /\ nVisited = 0
  /\ pruned = FALSE
  /\ stdout = <<>>
  /\ stderr = <<>>
  /\ exitCode = 0
  /\ stats = <<>>
  /\ aggregated = FALSE
  /\ runs = 0
  /\ prevStats = <<>>

\* ---------------------------------------------------------------- the walk
\* walkDir of path/filepath for one entry d met below `stack`: the callback is
\* called for d; a directory it did not skip is read, and a failing ReadDir is
\* reported to the callback in a second call.
Visit(d, readOk) ==
  LET r1      == Callback(cfg, Acc, d, FALSE)
      reads   == d.isDir /\ r1.ret = "nil"
      r2      == IF reads /\ ~readOk THEN Callback(cfg, r1.acc, d, TRUE) ELSE r1
      ret     == IF r2.ret = "SkipDir" /\ d.isDir THEN "nil" ELSE r2.ret
      descend == reads /\ readOk
      nstack  == IF ret # "nil" THEN <<>>
                 ELSE IF descend THEN Append(stack, d.name) ELSE stack
      logs    == (IF r1.log THEN <<"Skipping">> ELSE <<>>)
                   \o (IF reads /\ ~readOk /\ r2.log THEN <<"Skipping">> ELSE <<>>)
  IN /\ counts' = r2.acc.counts
     /\ sizeCounts' = r2.acc.sizeCounts
     /\ total' = r2.acc.total
     /\ totalBytes' = r2.acc.totalBytes
     /\ stack' = nstack
     /\ walkErr' = WalkDirReturn(ret)
     /\ pc' = IF nstack = <<>> THEN "walked" ELSE "walk"
     /\ stderr' = stderr \o logs
     /\ pruned' = (pruned \/ (d.isDir /\ r1.ret = "SkipDir"))
     /\ nVisited' = nVisited + 1
     /\ last' = [valid |-> TRUE, d |-> d, err |-> (reads /\ ~readOk),
                 ancestors |-> stack, ret |-> r1.ret, added |-> (r2.acc # Acc),
                 logged |-> (logs # <<>>), key |-> ChangedKey(Acc, r2.acc),
                 descended |-> (ret = "nil" /\ descend), cont |-> (nstack # <<>>)]
     /\ UNCHANGED << cfg, stdout, exitCode, stats, aggregated, runs, prevStats >>

\* a non-directory entry: d.Info() succeeds with a size, or fails
FileEntries ==
  { [name |-> n, isDir |-> FALSE, size |-> z, infoErr |-> FALSE] :
      n \in FileNames, z \in Sizes }
  \cup { [name |-> n, isDir |-> FALSE, size |-> 0, infoErr |-> TRUE] : n \in FileNames }

DirEntry(name) == [name |-> name, isDir |-> TRUE, size |-> 0, infoErr |-> FALSE]

\* filepath.WalkDir(cfg.Dir, fn): os.Lstat(root) fails, fn(root, nil, err)
WalkRootMissing ==
  /\ pc = "start"
  /\ LET r == Callback(cfg, Acc, NilEntry, TRUE)
     IN /\ counts' = r.acc.counts
        /\ sizeCounts' = r.acc.sizeCounts
        /\ total' = r.acc.total
        /\ totalBytes' = r.acc.totalBytes
        /\ walkErr' = WalkDirReturn(r.ret)
        /\ stderr' = stderr \o (IF r.log THEN <<"Skipping">> ELSE <<>>)
        /\ last' = [valid |-> TRUE, d |-> NilEntry, err |-> TRUE, ancestors |-> <<>>,
                    ret |-> r.ret, added |-> (r.acc # Acc), logged |-> r.log,
                    key |-> <<>>, descended |-> FALSE, cont |-> FALSE]
  /\ pc' = "walked"
  /\ nVisited' = nVisited + 1
  /\ UNCHANGED << cfg, stack, pruned, stdout, exitCode, stats, aggregated, runs,
                  prevStats >>

\* the root exists and is a directory
WalkRootDir ==
  /\ pc = "start"
  /\ \E name \in RootNames, readOk \in BOOLEAN :
       Visit(DirEntry(name), readOk)

\* the root exists and is not a directory
WalkRootFile ==
  /\ pc = "start"
  /\ \E d \in FileEntries : Visit(d, TRUE)

\* the next entry of the directory on top of the stack is a directory
VisitDir ==
  /\ pc = "walk"
  /\ nVisited <= MaxEntries
  /\ Len(stack) < MaxDepth
  /\ \E name \in DirNames, readOk \in BOOLEAN :
       Visit(DirEntry(name), readOk)

\* the next entry of the directory on top of the stack is not a directory
VisitFile ==
  /\ pc = "walk"
  /\ nVisited <= MaxEntries
  /\ \E d \in FileEntries : Visit(d, TRUE)

\* the directory on top of the stack has no more entries
LeaveDir ==
  /\ pc = "walk"
  /\ stack # <<>>
  /\ stack' = SubSeq(stack, 1, Len(stack) - 1)
  /\ pc' = IF Len(stack) = 1 THEN "walked" ELSE "walk"
  /\ UNCHANGED << cfg, counts, sizeCounts, total, totalBytes, walkErr, last,
                  nVisited, pruned, stdout, stderr, exitCode, stats, aggregated,
                  runs, prevStats >>

\* main, from the return of walkDir to the exit of the process
Main ==
  /\ pc = "walked"
  /\ \E order \in Perms(DOMAIN counts) :
       LET r == mainRun(cfg, walkErr, Acc, order)
       IN /\ stdout' = stdout \o r.stdout
          /\ stderr' = stderr \o r.stderr
          /\ exitCode' = r.exitCode
          /\ stats' = r.stats
          /\ aggregated' = r.aggregated
  /\ pc' = "exit"
  /\ runs' = runs + 1
  /\ UNCHANGED << cfg, stack, counts, sizeCounts, total, totalBytes, walkErr, last,
                  nVisited, pruned, prevStats >>

Next ==
  \/ WalkRootMissing
  \/ WalkRootDir
  \/ WalkRootFile
  \/ VisitDir
  \/ VisitFile
  \/ LeaveDir
  \/ Main

Spec == Init /\ [][Next]_vars

\* ------------------------------------------- the pipeline after the walk
\* What walkDir can return for a tree of visible files and no filter: the two
\* maps have the same keys, every key has at least one file, and the totals
\* are the sums.
Keys == { <<"go">>, NoExt, Other }
CountVals == { 1, 2, Big }
SizeVals == { 0, 1, Big }

Accumulators ==
  UNION { [ks -> CountVals \X SizeVals] : ks \in SUBSET Keys }

InitAgg ==
  /\ cfg \in { Config(dp, NoFilter) : dp \in Display }
  /\ pc = "walked"
  /\ stack = <<>>
  /\ \E a \in Accumulators :
       /\ counts = [k \in DOMAIN a |-> a[k][1]]
       /\ sizeCounts = [k \in DOMAIN a |-> a[k][2]]
  /\ total = SumMap(counts)
  /\ totalBytes = SumMap(sizeCounts)
  /\ walkErr = "nil"
  /\ last = NoLast
  /\ nVisited = 0
  /\ pruned = FALSE
  /\ stdout = <<>>
  /\ stderr = <<>>
  /\ exitCode = 0
  /\ stats = <<>>
  /\ aggregated = FALSE
  /\ runs = 0
  /\ prevStats = <<>>

\* the program is started again with the same arguments on the unchanged tree:
\* the walk visits the entries in the same (lexical) order and returns the same
\* accumulators
RunAgain ==
  /\ pc = "exit"
  /\ runs < MaxRuns
  /\ pc' = "walked"
  /\ prevStats' = stats
  /\ stdout' = <<>>
  /\ stderr' = <<>>
  /\ exitCode' = 0
  /\ stats' = <<>>
  /\ aggregated' = FALSE
  /\ UNCHANGED << cfg, stack, counts, sizeCounts, total, totalBytes, walkErr, last,
                  nVisited, pruned, runs >>

NextAgg ==
  \/ Main
  \/ RunAgain

SpecAgg == InitAgg /\ [][NextAgg]_vars

\* ================================================================== claims
\* --- vocabulary of the claims, written from their wording
IsFileVisit == last.valid /\ ~last.err /\ ~last.d.isDir
ReadableFile == IsFileVisit /\ ~last.d.infoErr
RootMissing == last.valid /\ last.err /\ last.d = NilEntry

HiddenBlocked(c, d) == ~c.IncludeHidden /\ Head(d.name) = Dot
MinBlocked(c, d) == c.MinSize > 0 /\ d.size < c.MinSize
MaxBlocked(c, d) == c.MaxSize > 0 /\ d.size > c.MaxSize

LastDotAt(name) ==
  CHOOSE i \in 1 .. Len(name) :
    name[i] = Dot /\ \A j \in (i + 1) .. Len(name) : name[j] # Dot
AfterLastDot(name) == SubSeq(name, LastDotAt(name) + 1, Len(name))
DotCount(name) == Cardinality({ i \in 1 .. Len(name) : name[i] = Dot })

\* the key as claim C10 words it
ClaimedKey(name) ==
  IF DotCount(name) = 0 \/ (DotCount(name) = 1 /\ Head(name) = Dot)
  THEN NoExt ELSE AfterLastDot(name)

\* the key as the code computes it
LastDotKey(name) == IF DotCount(name) = 0 THEN NoExt ELSE AfterLastDot(name)

Blocked(c, d) ==
  \/ HiddenBlocked(c, d)
  \/ MinBlocked(c, d)
  \/ MaxBlocked(c, d)
  \/ LastDotKey(d.name) \in c.Exclude

ChosenTotal == IF cfg.BySize THEN totalBytes ELSE total
Val(k) == IF cfg.BySize THEN sizeCounts[k] ELSE counts[k]
ShareBelow(k) == ChosenTotal = 0 \/ Val(k) * 100 < ChosenTotal
Survives(k) == cfg.Verbose \/ ~ShareBelow(k)
FoldedKeys == { k \in DOMAIN counts : ~Survives(k) }
EntriesOf(k) == { i \in DOMAIN stats : stats[i].Ext = k }
OwnEntry(k) ==
  IF cfg.BySize THEN [Ext |-> k, Count |-> 0, Size |-> sizeCounts[k]]
  ELSE [Ext |-> k, Count |-> counts[k], Size |-> 0]

StatCount(i) == stats[i].Count
StatSize(i) == stats[i].Size
StatMetric(i) == IF cfg.BySize THEN stats[i].Size ELSE stats[i].Count
Reported == pc = "exit" /\ aggregated

\* C1: after every callback step of the walk (and ever after) the counts sum
\* to total and the sizes sum to totalBytes.
C1_SumsEqualTotals ==
  /\ SumMap(counts) = total
  /\ SumMap(sizeCounts) = totalBytes

C1_Witness ==
  /\ pc = "walk"
  /\ total = 2
  /\ Cardinality(DOMAIN counts) = 2
  /\ totalBytes > 0

\* C2: the list aggregateStats returns conserves the chosen metric: the Counts
\* sum to total in count mode, the Sizes sum to totalBytes in size mode.
C2_MetricConserved ==
  Reported =>
    IF cfg.BySize THEN SumMap([i \in DOMAIN stats |-> StatSize(i)]) = totalBytes
    ELSE SumMap([i \in DOMAIN stats |-> StatCount(i)]) = total

C2_Witness ==
  /\ Reported
  /\ Cardinality(FoldedKeys) = 2
  /\ Len(stats) = 2

\* C3: collapsing law.  A key that survives (verbose, or share >= 1%) has its own
\* entry with its full value and is not part of the catch-all; a key that does
\* not survive has no entry of its own.
C3_CollapsingLaw ==
  Reported =>
    /\ \A k \in DOMAIN counts :
         Survives(k) => \E i \in DOMAIN stats : stats[i] = OwnEntry(k)
    /\ \A k \in DOMAIN counts \ {Other} :
         Cardinality(EntriesOf(k)) = IF Survives(k) THEN 1 ELSE 0
    /\ SumMap([i \in EntriesOf(Other) |-> StatMetric(i)])
         = SumMap([k \in FoldedKeys |-> Val(k)])
           + (IF Other \in DOMAIN counts /\ Survives(Other) THEN Val(Other) ELSE 0)
    /\ (Other \in FoldedKeys \/ Other \notin DOMAIN counts)
         => Cardinality(EntriesOf(Other)) <= 1

C3_Witness ==
  /\ Reported
  /\ ~cfg.Verbose
  /\ FoldedKeys # {}
  /\ \E k \in DOMAIN counts : Survives(k) /\ Val(k) * 100 = ChosenTotal

\* C4: a readable non-directory entry is counted iff it is not hidden-filtered,
\* not below a positive MinSize, not above a positive MaxSize and its key is not
\* excluded; inverted positive bounds count nothing; directories never count.
C4_CountedIffNotFiltered ==
  /\ ReadableFile => (last.added <=> ~Blocked(cfg, last.d))
  /\ (last.valid /\ last.d.isDir) => ~last.added
  /\ (cfg.MinSize > cfg.MaxSize /\ cfg.MaxSize > 0) => total = 0

C4_Witness ==
  /\ ReadableFile
  /\ last.added
  /\ cfg.MinSize > 0
  /\ cfg.Exclude # {}
  /\ ~cfg.IncludeHidden

\* C5: a directory whose name is in ExcludeDirs is pruned: the walk is never
\* inside it, it adds nothing, logs nothing and is no error, and the walk goes
\* on in the parent, where files are counted as everywhere else.
C5_Pruning ==
  /\ \A i \in DOMAIN stack : stack[i] \notin cfg.ExcludeDirs
  /\ last.valid => \A i \in DOMAIN last.ancestors :
                     last.ancestors[i] \notin cfg.ExcludeDirs
  /\ (last.valid /\ last.d.isDir /\ last.d.name \in cfg.ExcludeDirs) =>
       /\ ~last.added
       /\ ~last.logged
       /\ walkErr = "nil"
       /\ ~last.descended
       /\ (pc = "exit" => exitCode = 0)
       /\ (last.ancestors # <<>> => last.cont)
  /\ (pruned /\ ReadableFile) => (last.added <=> ~Blocked(cfg, last.d))

C5_Witness ==
  /\ pruned
  /\ ReadableFile
  /\ last.added
  /\ Len(last.ancestors) = 1

\* C6: when the root cannot be read, walkDir returns the error, and main writes
\* a diagnostic, exits non-zero and prints nothing.
C6_FatalRootError ==
  RootMissing =>
    /\ (pc \in {"walked", "exit"} => walkErr # "nil")
    /\ (pc = "exit" => exitCode # 0 /\ stdout = <<>>)

\* C7 as claimed: whenever the scan ends with total = 0 the program prints
\* "No files matched criteria." and exits zero, whatever the other flags.
C7_EmptyMatchAlways ==
  (pc = "exit" /\ total = 0) =>
    /\ "No files matched criteria." \in Range(stdout)
    /\ exitCode = 0

\* C7 as amended: with total = 0 the program exits zero; without --sizeonly its
\* output is the optional size line followed by "No files matched criteria.";
\* with --sizeonly its output is the size line alone.
C7_EmptyMatchUnlessSizeOnly ==
  (pc = "exit" /\ total = 0) =>
    /\ exitCode = 0
    /\ ~aggregated
    /\ stdout = IF cfg.SizeOnly THEN <<"size">>
                ELSE (IF cfg.ShowSize THEN <<"Directory size:">> ELSE <<>>)
                       \o <<"No files matched criteria.">>

C7_Witness ==
  /\ pc = "exit"
  /\ total = 0
  /\ ~cfg.SizeOnly
  /\ cfg.ShowSize /\ cfg.BySize /\ cfg.Verbose /\ cfg.NoBar

\* C8: the list has exactly one entry with key "other" when some key was folded
\* and none when no key was folded.
C8_OtherEntryIffFolded ==
  Reported =>
    Cardinality(EntriesOf(Other)) = IF FoldedKeys # {} THEN 1 ELSE 0

\* C9: two runs with the same configuration on the same tree return the same
\* entries in the same order.
C9_RunsAgree ==
  (pc = "exit" /\ runs >= 2) => stats = prevStats

\* C10 as claimed: the key of a counted file is [noext] when the name has no dot
\* or its only dot is its first character, else the text after the last dot.
C10_KeyAsClaimed ==
  (ReadableFile /\ last.added) => last.key = ClaimedKey(last.d.name)

\* C10 as amended: the key is [noext] only when the name has no dot at all, else
\* the text after the last dot (".bashrc" has key "bashrc"); the Exclude test
\* and the accumulators use that same key.
C10_KeyAfterLastDot ==
  /\ (ReadableFile /\ last.added) => last.key = LastDotKey(last.d.name)
  /\ ( ReadableFile /\ ~HiddenBlocked(cfg, last.d) /\ ~MinBlocked(cfg, last.d)
       /\ ~MaxBlocked(cfg, last.d) )
       => (last.added <=> LastDotKey(last.d.name) \notin cfg.Exclude)

C10_Witness ==
  /\ ReadableFile
  /\ last.added
  /\ last.d.name = <<Dot, "bashrc">>
  /\ last.key = <<"bashrc">>

====
